---- MODULE Spec2Model ----
(***************************************************************************)
(* Model of the deployment orchestrator of AutoCloud.                      *)
(*                                                                         *)
(*  - server/azure-deploy.ts: the registry activeDeployments, the update   *)
(*    log of each deployment, the external command runner and the          *)
(*    background task deployTerraform started by deployToAzure.            *)
(*  - server/azure.ts: runTerraformPlan / applyTerraformPlan over the      *)
(*    TerraformWrapper (SpecApply), authenticateWithAzure (SpecAuth).      *)
(*  - executeCommand observed on its own (SpecExec); SpecLive is Spec with *)
(*    every spawned process eventually emitting close or error.            *)
(*                                                                         *)
(* One action is one turn of the Node.js event loop: the event handler of  *)
(* a child process (data, close, error) together with the promise          *)
(* continuation it releases, up to the next await of an external command.  *)
(***************************************************************************)
EXTENDS Integers, Sequences, FiniteSets, TLC

\* ------------------------------------------------------------------ bounds
MaxClock == 1       \* the clock reads 0..MaxClock

\* the chunks the processes run with an onOutput callback write to stdout and
\* stderr over one behaviour, in their order of arrival
Chunks == <<"chunk 1">>

Jobs == {1, 2}      \* the calls of deployToAzure in one behaviour
Times == 0..MaxClock
NoTime == -1

\* ------------------------------------------------------------------ inputs
\* analysis objects handed to deployToAzure: id, repoName, whether
\* terraformCode is present, number of files in terraformCode.files
Analyses ==
  { [id |-> "a1", repoName |-> <<"o", "/", "r">>, code |-> TRUE, files |-> 1],
    [id |-> "a0", repoName |-> <<"p", "/", "q">>, code |-> TRUE, files |-> 0],
    [id |-> "a2", repoName |-> <<"p", "/", "q">>, code |-> FALSE, files |-> 0] }

NoAnalysis == [id |-> "none", repoName |-> <<>>, code |-> FALSE, files |-> 0]

\* deployToAzure that does not look at terraformCode
HasTerraformFiles_Unchecked(a) == TRUE

\* the guard of deployToAzure: terraformCode is present and has files
HasTerraformFiles(a) == a.code /\ a.files # 0

\* ------------------------------------------------------------- data model
NoDetails == [def |-> FALSE, text |-> <<>>]
Details(output) == [def |-> TRUE, text |-> output]

\* An update's timestamp is the clock reading of the addDeploymentUpdate call
\* that made it. It is read once, to set endTime; the model keeps it there and
\* not in each element of updates.
DeploymentUpdate(status, message, details) ==
  [status |-> status, message |-> message, details |-> details]

DeploymentStatus(a, ts) ==
  [analysisId |-> a.id, repoName |-> a.repoName, status |-> "initializing",
   startTime |-> ts, endTime |-> NoTime, updates |-> <<>>, logs |-> <<>>]

Terminal(status) == status \in {"completed", "failed"}

\* `details` is appended to logs only when it is truthy (defined, non-empty)
Truthy(details) == details.def /\ details.text # <<>>

\* the pieces addDeploymentUpdate appends to logs
LogLine(u) == [kind |-> "line", status |-> u.status, message |-> u.message, text |-> <<>>]
LogDetails(u) == [kind |-> "details", status |-> u.status, message |-> u.message,
                  text |-> u.details.text]

\* addDeploymentUpdate that leaves the status of a finished deployment alone
\* but still pushes the update
AddDeploymentUpdate_KeepsTerminal(ad, deploymentId, status, message, details, ts) ==
  IF deploymentId \notin DOMAIN ad THEN ad
  ELSE LET d == ad[deploymentId]
           u == DeploymentUpdate(status, message, details)
           l1 == Append(d.logs, LogLine(u))
           l2 == IF Truthy(details) THEN Append(l1, LogDetails(u)) ELSE l1
       IN [ad EXCEPT ![deploymentId] =
             [d EXCEPT !.status = IF Terminal(d.status) THEN d.status ELSE status,
                       !.updates = Append(d.updates, u),
                       !.logs = l2,
                       !.endTime = IF Terminal(status) THEN ts ELSE d.endTime]]

\* addDeploymentUpdate that finds its deployments by analysisId
AddDeploymentUpdate_ByAnalysis(ad, deploymentId, status, message, details, ts) ==
  IF deploymentId \notin DOMAIN ad THEN ad
  ELSE LET u == DeploymentUpdate(status, message, details)
       IN [x \in DOMAIN ad |->
             IF ad[x].analysisId = ad[deploymentId].analysisId
             THEN [ad[x] EXCEPT !.status = status,
                                !.updates = Append(ad[x].updates, u),
                                !.logs = IF Truthy(details)
                                         THEN Append(Append(ad[x].logs, LogLine(u)), LogDetails(u))
                                         ELSE Append(ad[x].logs, LogLine(u)),
                                !.endTime = IF Terminal(status) THEN ts ELSE ad[x].endTime]
             ELSE ad[x]]

\* addDeploymentUpdate that evicts a deployment when it finishes
AddDeploymentUpdate_Evicts(ad, deploymentId, status, message, details, ts) ==
  IF deploymentId \notin DOMAIN ad THEN ad
  ELSE IF Terminal(status) THEN [x \in DOMAIN ad \ {deploymentId} |-> ad[x]]
  ELSE LET d == ad[deploymentId]
           u == DeploymentUpdate(status, message, details)
           l1 == Append(d.logs, LogLine(u))
           l2 == IF Truthy(details) THEN Append(l1, LogDetails(u)) ELSE l1
       IN [ad EXCEPT ![deploymentId] =
             [d EXCEPT !.status = status,
                       !.updates = Append(d.updates, u),
                       !.logs = l2]]

\* addDeploymentUpdate on the registry ad; returns the registry afterwards
AddDeploymentUpdate(ad, deploymentId, status, message, details, ts) ==
  IF deploymentId \notin DOMAIN ad THEN ad
  ELSE LET d == ad[deploymentId]
           u == DeploymentUpdate(status, message, details)
           l1 == Append(d.logs, LogLine(u))
           l2 == IF Truthy(details) THEN Append(l1, LogDetails(u)) ELSE l1
       IN [ad EXCEPT ![deploymentId] =
             [d EXCEPT !.status = status,
                       !.updates = Append(d.updates, u),
                       !.logs = l2,
                       !.endTime = IF Terminal(status) THEN ts ELSE d.endTime]]

\* ------------------------------------------------------------------- state
VARIABLES
  activeDeployments,  \* Map<string, DeploymentStatus>: function on the ids registered
  now,                \* the reading of Date.now() / new Date()
  azInstalled,        \* the az binary can be spawned
  tfInstalled,        \* the terraform binary can be spawned
  loggedIn,           \* the az CLI holds an authenticated session
  fsDirs,             \* directories that exist under ./tmp
  pc,                 \* per call: the command its background task awaits
  jobId,              \* per call: the deploymentId computed by deployToAzure
  jobAnalysis,        \* per call: the analysis argument
  jobDir,             \* per call: deployDir of deployTerraform
  out,                \* per call: output captured by the running executeCommand
  err,                \* per call: the error its background task rejected with
  lateClose,          \* per call: commands whose error event is still followed by close
  emitted,            \* number of 'data' events so far
  tmpDirs,            \* azure.ts: number of directories tmp.dirSync has created
  planFiles,          \* azure.ts: the directories that hold a tfplan artifact
  call,               \* azure.ts: per request, the run of runTerraformPlan / applyTerraformPlan
  auth,               \* azure.ts: per request, the run of authenticateWithAzure
  exec                \* one call of executeCommand observed on its own

vars == <<activeDeployments, now, azInstalled, tfInstalled, loggedIn, fsDirs, pc, jobId,
          jobAnalysis, jobDir, out, err, lateClose, emitted, tmpDirs, planFiles, call, auth, exec>>

\* the state of azure.ts, and the state of azure-deploy.ts
applyVars == <<tmpDirs, planFiles, call, auth, exec>>
deployVars == <<activeDeployments, now, azInstalled, loggedIn, fsDirs, pc, jobId,
                jobAnalysis, jobDir, out, err, lateClose, emitted>>

NoId == <<"none", NoTime>>
NoDir == <<>>
NoError == <<>>

\* the requests served by azure.ts in one behaviour
Calls == {1, 2}
NoResult == [success |-> FALSE, message |-> "none", hasOutputs |-> FALSE, outputs |-> <<>>]
\* printed: the text `terraform output -json` wrote, once it has run
NoText == "none"
\* a call of executeCommand: the command, the Buffers its process has written
\* (with the stream of each), the local `output`, the strings handed to
\* onOutput, the handlers that have run and how the promise settled
NoCode == -1
NoExec == [pc |-> "idle", cmd |-> "none", arrived |-> <<>>, output |-> <<>>, calls |-> <<>>,
           errored |-> FALSE, closed |-> FALSE, code |-> NoCode, resolved |-> <<>>]

\* a run of authenticateWithAzure: the variables process.env holds, the lines
\* pushed to logs, how the promise settled and with which result
NoAuth == [pc |-> "idle", env |-> {}, logs |-> <<>>, settled |-> "pending",
           success |-> FALSE, isLoggedIn |-> FALSE, message |-> "none"]
NoCall == [kind |-> "none", pc |-> "idle", dir |-> 0, ran |-> <<>>, printed |-> NoText,
           result |-> NoResult]

Init ==
  /\ activeDeployments = <<>>
  /\ now = 0
  /\ azInstalled \in BOOLEAN
  /\ tfInstalled \in BOOLEAN
  /\ loggedIn \in BOOLEAN
  /\ fsDirs \in {{}}
  /\ pc = [j \in Jobs |-> "idle"]
  /\ jobId = [j \in Jobs |-> NoId]
  /\ jobAnalysis = [j \in Jobs |-> NoAnalysis]
  /\ jobDir = [j \in Jobs |-> NoDir]
  /\ out = [j \in Jobs |-> <<>>]
  /\ err = [j \in Jobs |-> NoError]
  /\ lateClose = [j \in Jobs |-> <<>>]
  /\ emitted = 0
  /\ tmpDirs = 0
  /\ planFiles = {}
  /\ call = [c \in Calls |-> NoCall]
  /\ auth = [c \in Calls |-> NoAuth]
  /\ exec = NoExec

\* --------------------------------------------------- external commands
\* the command a background task awaits at each position
Running == {"azVersion", "tfVersion", "accountShow", "login", "init", "plan", "apply"}

Command(p) ==
  CASE p = "azVersion" -> <<"az", "--version">>
    [] p = "tfVersion" -> <<"terraform", "--version">>
    [] p = "accountShow" -> <<"az", "account", "show">>
    [] p = "login" -> <<"az", "login", "--use-device-code">>
    [] p = "init" -> <<"terraform", "init">>
    [] p = "plan" -> <<"terraform", "plan", "-out=tfplan">>
    [] p = "apply" -> <<"terraform", "apply", "-auto-approve", "tfplan">>

\* the binary of a command is on the PATH
Installed(p) == IF Command(p)[1] = "az" THEN azInstalled ELSE tfInstalled

\* what `az --version` / `terraform --version` can have written when they close
ProbeOutputs(p) ==
  CASE p = "azVersion" -> {<<"azure-cli 2.50.0">>, <<"noise">>}
    [] p = "tfVersion" -> {<<"Terraform v1.5.0">>, <<"noise">>}

\* String.includes on the captured output
Includes(output, marker) ==
  \E i \in 1..Len(output) :
    <<output[i], marker>> \in {<<"azure-cli 2.50.0", "azure-cli">>,
                               <<"Terraform v1.5.0", "Terraform">>}

\* JSON.parse(output) followed by !!account.id; FALSE stands for both a parse
\* exception and a document without id
AccountHasId(output) == output = <<"{\"id\":\"sub\"}">>

\* status and message of the onOutput callback handed to executeCommand
HasCallback(p) == p \in {"login", "init", "plan", "apply"}
CallbackStatus(p) ==
  CASE p = "login" -> "authenticating"
    [] p = "init" -> "preparing"
    [] p = "plan" -> "planning"
    [] p = "apply" -> "applying"
CallbackMessage(p) ==
  CASE p = "login" -> <<"Azure authentication in progress">>
    [] p = "init" -> <<"Terraform initialization in progress">>
    [] p = "plan" -> <<"Terraform plan in progress">>
    [] p = "apply" -> <<"Terraform apply in progress">>

\* executeCommand whose 'close' handler passes no details
ExecuteCommandCloseFailed_NoDetails(ad, deploymentId, p, output, ts) ==
  AddDeploymentUpdate(ad, deploymentId, "failed",
                      <<"Command failed: ">> \o Command(p), NoDetails, ts)

\* executeCommand, handler of 'close' with a non-zero code
ExecuteCommandCloseFailed(ad, deploymentId, p, output, ts) ==
  AddDeploymentUpdate(ad, deploymentId, "failed",
                      <<"Command failed: ">> \o Command(p), Details(output), ts)
CloseErrorMessage(output) == <<"Command failed with exit code ", "1", ": ">> \o output

\* executeCommand, handler of 'error'
SpawnErrorMessage(p) == <<"spawn ", Command(p)[1], " ENOENT">>
ExecuteCommandError(ad, deploymentId, p, output, ts) ==
  AddDeploymentUpdate(ad, deploymentId, "failed",
                      <<"Command error: ">> \o SpawnErrorMessage(p), Details(output), ts)

\* ------------------------------------------------------------ file system
\* String.replace('/', '_') replaces the first occurrence only
RECURSIVE ReplaceFirstSlash(_)
ReplaceFirstSlash(name) ==
  IF name = <<>> THEN <<>>
  ELSE IF Head(name) = "/" THEN <<"_">> \o Tail(name)
  ELSE <<Head(name)>> \o ReplaceFirstSlash(Tail(name))

\* path.join('./tmp', `${repoName.replace('/', '_')}_terraform_deploy`)
DeployDir(repoName) == <<"tmp", "/">> \o ReplaceFirstSlash(repoName) \o <<"_terraform_deploy">>

\* what staging can meet: every call succeeds, mkdirSync throws, writeFileSync throws
StagingOutcomes == {"ok", "mkdirThrows", "writeThrows"}

\* existsSync / mkdirSync / writeFileSync of deployTerraform under outcome s
StagingOk(dirs, dir, s) ==
  /\ s # "writeThrows"
  /\ (s = "mkdirThrows" => dir \in dirs)
StagingDirs(dirs, dir, s) ==
  IF dir \in dirs \/ s = "mkdirThrows" THEN dirs ELSE dirs \cup {dir}
StagingErrorMessage(dirs, dir, s) ==
  IF s = "mkdirThrows" /\ dir \notin dirs THEN <<"EACCES: mkdir">> ELSE <<"ENOSPC: write">>

\* ------------------------------------------------------ background task
\* catch of deployTerraform, then the .catch deployToAzure attached to the task
DeployTerraformCatch(ad, deploymentId, errorMessage, ts) ==
  AddDeploymentUpdate(ad, deploymentId, "failed",
                      <<"Deployment failed: ">> \o errorMessage, NoDetails, ts)
\* deployToAzure that attaches no .catch to the task
DeployToAzureCatch_Missing(ad, deploymentId, errorMessage, ts) == ad

\* the .catch deployToAzure attached to the task
DeployToAzureCatch(ad, deploymentId, errorMessage, ts) ==
  AddDeploymentUpdate(ad, deploymentId, "failed",
                      <<"Deployment failed: ">> \o errorMessage, NoDetails, ts)

\* deployTerraform that makes its first update only after its first await
DeployTerraformStart_Deferred(ad, deploymentId, a, ts) == ad

\* deployTerraform that is awaited up to its authenticating stage
DeployTerraformStart_Awaited(ad, deploymentId, a, ts) ==
  AddDeploymentUpdate(
    AddDeploymentUpdate(ad, deploymentId, "initializing",
                        <<"Initializing deployment for ">> \o a.repoName, NoDetails, ts),
    deploymentId, "authenticating", <<"Starting Azure authentication process...">>,
    NoDetails, ts)

\* deployTerraform up to its first await: the 'initializing' update
DeployTerraformStart(ad, deploymentId, a, ts) ==
  AddDeploymentUpdate(ad, deploymentId, "initializing",
                      <<"Initializing deployment for ">> \o a.repoName, NoDetails, ts)

\* the task's continuations, as the state they leave: registry, position,
\* directories, deployDir
Step(ad, p, dirs, dir, e) == [ad |-> ad, pc |-> p, dirs |-> dirs, dir |-> dir, err |-> e]

\* an exception reaching the catch of deployTerraform
Thrown(ad, j, errorMessage) ==
  Step(DeployToAzureCatch(DeployTerraformCatch(ad, jobId[j], errorMessage, now),
                          jobId[j], errorMessage, now),
       "rejected", fsDirs, jobDir[j], errorMessage)

\* deployTerraform from "Prepare deployment directory" to the spawn of terraform init
Prepare(ad, j, s) ==
  LET dir == DeployDir(jobAnalysis[j].repoName)
      ad1 == AddDeploymentUpdate(ad, jobId[j], "preparing",
                                 <<"Preparing deployment directory: ">> \o dir, NoDetails, now)
      dirs1 == StagingDirs(fsDirs, dir, s)
  IN IF StagingOk(fsDirs, dir, s)
     THEN Step(AddDeploymentUpdate(ad1, jobId[j], "preparing",
                                   <<"Initializing Terraform">>, NoDetails, now),
               "init", dirs1, dir, NoError)
     ELSE LET msg == StagingErrorMessage(fsDirs, dir, s)
          IN Step(DeployToAzureCatch(DeployTerraformCatch(ad1, jobId[j], msg, now),
                                     jobId[j], msg, now),
                  "rejected", dirs1, dir, msg)

\* loginToAzure after checkAzureAuthentication returned false
StartLogin(ad, j) ==
  Step(AddDeploymentUpdate(ad, jobId[j], "authenticating",
                           <<"Starting Azure authentication process...">>, NoDetails, now),
       "login", fsDirs, jobDir[j], NoError)

\* deployTerraform that announces the preparing stage before it probes terraform
OnResolved_PreparesFirst(ad, j, s, output) ==
  CASE pc[j] = "azVersion" ->
         IF Includes(output, "azure-cli")
         THEN Step(AddDeploymentUpdate(ad, jobId[j], "preparing",
                                       <<"Preparing deployment directory: ">>, NoDetails, now),
                   "tfVersion", fsDirs, jobDir[j], NoError)
         ELSE Thrown(ad, j, <<"Azure CLI is not installed">>)
    [] pc[j] = "tfVersion" ->
         IF Includes(output, "Terraform")
         THEN Step(ad, "accountShow", fsDirs, jobDir[j], NoError)
         ELSE Thrown(ad, j, <<"Terraform is not installed">>)
    [] pc[j] = "accountShow" ->
         IF AccountHasId(output)
         THEN Prepare(AddDeploymentUpdate(ad, jobId[j], "authenticating",
                        <<"Already authenticated with Azure">>, NoDetails, now), j, s)
         ELSE StartLogin(ad, j)
    [] pc[j] = "login" ->
         Prepare(AddDeploymentUpdate(ad, jobId[j], "authenticating",
                   <<"Successfully authenticated with Azure">>, NoDetails, now), j, s)
    [] pc[j] = "init" ->
         Step(AddDeploymentUpdate(ad, jobId[j], "planning",
                <<"Planning Terraform deployment">>, NoDetails, now),
              "plan", fsDirs, jobDir[j], NoError)
    [] pc[j] = "plan" ->
         Step(AddDeploymentUpdate(ad, jobId[j], "applying",
                <<"Applying Terraform deployment">>, NoDetails, now),
              "apply", fsDirs, jobDir[j], NoError)
    [] pc[j] = "apply" ->
         Step(AddDeploymentUpdate(ad, jobId[j], "completed",
                <<"Deployment completed successfully for ">> \o jobAnalysis[j].repoName,
                NoDetails, now),
              "fulfilled", fsDirs, jobDir[j], NoError)

\* the awaited executeCommand resolved (exit code 0)
OnResolved(ad, j, s, output) ==
  CASE pc[j] = "azVersion" ->
         IF Includes(output, "azure-cli")
         THEN Step(ad, "tfVersion", fsDirs, jobDir[j], NoError)
         ELSE Thrown(ad, j, <<"Azure CLI is not installed">>)
    [] pc[j] = "tfVersion" ->
         IF Includes(output, "Terraform")
         THEN Step(ad, "accountShow", fsDirs, jobDir[j], NoError)
         ELSE Thrown(ad, j, <<"Terraform is not installed">>)
    [] pc[j] = "accountShow" ->
         IF AccountHasId(output)
         THEN Prepare(AddDeploymentUpdate(ad, jobId[j], "authenticating",
                        <<"Already authenticated with Azure">>, NoDetails, now), j, s)
         ELSE StartLogin(ad, j)
    [] pc[j] = "login" ->
         Prepare(AddDeploymentUpdate(ad, jobId[j], "authenticating",
                   <<"Successfully authenticated with Azure">>, NoDetails, now), j, s)
    [] pc[j] = "init" ->
         Step(AddDeploymentUpdate(ad, jobId[j], "planning",
                <<"Planning Terraform deployment">>, NoDetails, now),
              "plan", fsDirs, jobDir[j], NoError)
    [] pc[j] = "plan" ->
         Step(AddDeploymentUpdate(ad, jobId[j], "applying",
                <<"Applying Terraform deployment">>, NoDetails, now),
              "apply", fsDirs, jobDir[j], NoError)
    [] pc[j] = "apply" ->
         Step(AddDeploymentUpdate(ad, jobId[j], "completed",
                <<"Deployment completed successfully for ">> \o jobAnalysis[j].repoName,
                NoDetails, now),
              "fulfilled", fsDirs, jobDir[j], NoError)

\* deployTerraform that creates the deployment directory before it looks at
\* the result of the terraform probe
OnRejected_StagesFirst(ad, j, errorMessage) ==
  CASE pc[j] = "azVersion" -> Thrown(ad, j, <<"Azure CLI is not installed">>)
    [] pc[j] = "tfVersion" ->
         Step(Thrown(ad, j, <<"Terraform is not installed">>).ad, "rejected",
              fsDirs \cup {DeployDir(jobAnalysis[j].repoName)},
              DeployDir(jobAnalysis[j].repoName), <<"Terraform is not installed">>)
    [] pc[j] = "accountShow" -> StartLogin(ad, j)
    [] OTHER -> Thrown(ad, j, errorMessage)

\* deployTerraform whose await of a failed `az login` never resumes
OnRejected_Hangs(ad, j, errorMessage) ==
  CASE pc[j] = "azVersion" -> Thrown(ad, j, <<"Azure CLI is not installed">>)
    [] pc[j] = "tfVersion" -> Thrown(ad, j, <<"Terraform is not installed">>)
    [] pc[j] = "accountShow" -> StartLogin(ad, j)
    [] pc[j] = "login" -> Step(ad, "pending", fsDirs, jobDir[j], errorMessage)
    [] OTHER -> Thrown(ad, j, errorMessage)

\* deployTerraform that initialises again when terraform plan fails
OnRejected_Retries(ad, j, errorMessage) ==
  CASE pc[j] = "azVersion" -> Thrown(ad, j, <<"Azure CLI is not installed">>)
    [] pc[j] = "tfVersion" -> Thrown(ad, j, <<"Terraform is not installed">>)
    [] pc[j] = "accountShow" -> StartLogin(ad, j)
    [] pc[j] = "plan" -> Step(ad, "init", fsDirs, jobDir[j], errorMessage)
    [] OTHER -> Thrown(ad, j, errorMessage)

\* the awaited executeCommand rejected with errorMessage
OnRejected(ad, j, errorMessage) ==
  CASE pc[j] = "azVersion" -> Thrown(ad, j, <<"Azure CLI is not installed">>)
    [] pc[j] = "tfVersion" -> Thrown(ad, j, <<"Terraform is not installed">>)
    [] pc[j] = "accountShow" -> StartLogin(ad, j)
    [] OTHER -> Thrown(ad, j, errorMessage)

\* the state after a turn of job j's task that ends in step c
Turn(j, c) ==
  /\ activeDeployments' = c.ad
  /\ pc' = [pc EXCEPT ![j] = c.pc]
  /\ fsDirs' = c.dirs
  /\ jobDir' = [jobDir EXCEPT ![j] = c.dir]
  /\ out' = [out EXCEPT ![j] = <<>>]
  /\ err' = [err EXCEPT ![j] = c.err]

\* deployToAzure: the synchronous part up to the first await of deployTerraform
DeployToAzure(j, a) ==
  /\ pc[j] = "idle"
  /\ \A i \in Jobs : i < j => pc[i] # "idle"
  /\ IF ~HasTerraformFiles(a)
     THEN /\ pc' = [pc EXCEPT ![j] = "threw"]
          /\ UNCHANGED <<activeDeployments, jobId, jobAnalysis>>
     ELSE LET deploymentId == <<a.id, now>>
              ad1 == [x \in DOMAIN activeDeployments \cup {deploymentId} |->
                        IF x = deploymentId THEN DeploymentStatus(a, now)
                        ELSE activeDeployments[x]]
          IN /\ activeDeployments' = DeployTerraformStart(ad1, deploymentId, a, now)
             /\ pc' = [pc EXCEPT ![j] = "azVersion"]
             /\ jobId' = [jobId EXCEPT ![j] = deploymentId]
             /\ jobAnalysis' = [jobAnalysis EXCEPT ![j] = a]
  /\ UNCHANGED <<now, azInstalled, tfInstalled, loggedIn, fsDirs, jobDir, out, err, lateClose, emitted, applyVars>>

\* The 'data' handler of a command run without onOutput only appends to the
\* local `output`: such a process delivers its whole output with its close
\* event. A command run with onOutput has one Data turn per chunk.
\* `az account show` prints the account and exits 0 when a session exists, and
\* exits non-zero otherwise.
OutputAtCloseZero(j) ==
  CASE HasCallback(pc[j]) -> {out[j]}
    [] pc[j] = "accountShow" -> IF loggedIn THEN {<<"{\"id\":\"sub\"}">>} ELSE {}
    [] pc[j] \in {"azVersion", "tfVersion"} -> ProbeOutputs(pc[j])
    [] OTHER -> {}
OutputAtCloseNonZero(j) ==
  CASE HasCallback(pc[j]) -> {out[j]}
    [] pc[j] = "accountShow" -> IF loggedIn THEN {} ELSE {<<"noise">>}
    [] pc[j] \in {"azVersion", "tfVersion"} -> {<<"noise">>}
    [] OTHER -> {}

\* 'data' on stdout or stderr of the running process
Data(j, chunk) ==
  /\ pc[j] \in Running
  /\ HasCallback(pc[j])
  /\ Installed(pc[j])
  /\ emitted < Len(Chunks)
  /\ emitted' = emitted + 1
  /\ chunk = Chunks[emitted + 1]
  /\ out' = [out EXCEPT ![j] = Append(out[j], chunk)]
  /\ activeDeployments' =
       AddDeploymentUpdate(activeDeployments, jobId[j], CallbackStatus(pc[j]),
                           CallbackMessage(pc[j]), Details(<<chunk>>), now)
  /\ UNCHANGED <<now, azInstalled, tfInstalled, loggedIn, fsDirs, pc, jobId, jobAnalysis,
                 jobDir, err, lateClose, applyVars>>

\* 'close' with code 0
CloseZero(j, s, output) ==
  /\ pc[j] \in Running
  /\ Installed(pc[j])
  /\ output \in OutputAtCloseZero(j)
  /\ loggedIn' = (loggedIn \/ pc[j] = "login")
  /\ Turn(j, OnResolved(activeDeployments, j, s, output))
  /\ UNCHANGED <<now, azInstalled, tfInstalled, jobId, jobAnalysis, lateClose, emitted, applyVars>>

\* 'close' with a non-zero code
CloseNonZero(j, output) ==
  /\ pc[j] \in Running
  /\ Installed(pc[j])
  /\ output \in OutputAtCloseNonZero(j)
  /\ Turn(j, OnRejected(ExecuteCommandCloseFailed(activeDeployments, jobId[j], pc[j],
                                                  output, now),
                        j, CloseErrorMessage(output)))
  /\ UNCHANGED <<now, azInstalled, tfInstalled, loggedIn, jobId, jobAnalysis, lateClose, emitted, applyVars>>

\* 'error': the binary could not be spawned; node emits 'close' afterwards
SpawnError(j) ==
  /\ pc[j] \in Running
  /\ ~Installed(pc[j])
  /\ Turn(j, OnRejected(ExecuteCommandError(activeDeployments, jobId[j], pc[j],
                                            out[j], now),
                        j, SpawnErrorMessage(pc[j])))
  /\ lateClose' = [lateClose EXCEPT ![j] = Append(lateClose[j], pc[j])]
  /\ UNCHANGED <<now, azInstalled, tfInstalled, loggedIn, jobId, jobAnalysis, emitted, applyVars>>

\* 'close' of a process that failed to spawn: the promise is already rejected
CloseAfterError(j) ==
  /\ lateClose[j] # <<>>
  /\ activeDeployments' =
       ExecuteCommandCloseFailed(activeDeployments, jobId[j], Head(lateClose[j]), <<>>, now)
  /\ lateClose' = [lateClose EXCEPT ![j] = Tail(lateClose[j])]
  /\ UNCHANGED <<now, azInstalled, tfInstalled, loggedIn, fsDirs, pc, jobId, jobAnalysis,
                 jobDir, out, err, emitted, applyVars>>

\* ------------------------------------------------- azure.ts: plan and apply
\* what storage.getAnalysis can return for the analysisId of a request
StoredAnalyses == {"found", "notFound", "noTerraformCode"}

\* `terraform output -json` after a successful apply: the command throws, or
\* it prints one of these texts
OutputTexts == {"", "{\"url\":{\"value\":\"u\"}}", "{\"url\":null}", "not json"}

\* TerraformWrapper.output: `return output || '{}'`
OutputOrEmptyObject(text) == IF text = "" THEN "{}" ELSE text

\* JSON.parse(outputs) and the loop over Object.entries reading value.value:
\* ok is FALSE when either throws
ParseOutputs(text) ==
  CASE text = "{}" -> [ok |-> TRUE, outputs |-> <<>>]
    [] text = "{\"url\":{\"value\":\"u\"}}" -> [ok |-> TRUE, outputs |-> <<<<"url", "u">>>>]
    [] OTHER -> [ok |-> FALSE, outputs |-> <<>>]

Result(success, message, hasOutputs, outputs) ==
  [success |-> success, message |-> message, hasOutputs |-> hasOutputs, outputs |-> outputs]

\* the result of runTerraformPlan when it fails, as each kind of request returns it
PlanFailed(kind) ==
  IF kind = "apply" THEN Result(FALSE, "Failed to create Terraform plan", FALSE, <<>>)
  ELSE Result(FALSE, "Failed to run Terraform plan", FALSE, <<>>)

Ran(cmd, dir, ok) == [cmd |-> cmd, dir |-> dir, ok |-> ok]

\* applyTerraformPlan that applies in the directory created last
ApplyDir_Latest(c) == tmpDirs

\* the directory applyTerraformPlan hands to its TerraformWrapper:
\* planResult.terraformDir
ApplyDir(c) == call[c].dir

Finish(c, result) == call' = [call EXCEPT ![c].pc = "done", ![c].result = result]

\* runTerraformPlan that works in one directory per analysis
TmpDirSync_Reused(n) == 1

\* tmp.dirSync({ prefix: 'terraform-' }): a directory that did not exist; n
\* directories have been created before
TmpDirSync(n) == n + 1

\* runTerraformPlan up to tmp.dirSync; kind tells which exported function the
\* request entered (applyTerraformPlan calls runTerraformPlan first)
StartPlan(c, kind, stored) ==
  /\ call[c].pc = "idle"
  /\ \A b \in Calls : b < c => call[b].pc # "idle"
  /\ IF stored = "found"
     THEN /\ tmpDirs' = tmpDirs + 1
          /\ call' = [call EXCEPT ![c].kind = kind, ![c].pc = "staging",
                                  ![c].dir = TmpDirSync(tmpDirs)]
     ELSE /\ call' = [call EXCEPT ![c].kind = kind, ![c].pc = "done",
                                  ![c].result = PlanFailed(kind)]
          /\ UNCHANGED tmpDirs
  /\ UNCHANGED <<planFiles, tfInstalled, auth, exec, deployVars>>

\* runTerraformPlan: the file writes and the read of variables.tf
StageFiles(c, ok) ==
  /\ call[c].pc = "staging"
  /\ IF ok THEN call' = [call EXCEPT ![c].pc = "init"]
     ELSE Finish(c, PlanFailed(call[c].kind))
  /\ UNCHANGED <<tmpDirs, planFiles, tfInstalled, auth, exec, deployVars>>

\* runTerraformPlan: terraform.init(); it throws when terraform is not installed
TerraformInit(c, ok) ==
  /\ call[c].pc = "init"
  /\ IF ~tfInstalled THEN Finish(c, PlanFailed(call[c].kind))
     ELSE IF ok
     THEN call' = [call EXCEPT ![c].pc = "plan",
                               ![c].ran = Append(@, Ran("init", call[c].dir, TRUE))]
     ELSE call' = [call EXCEPT ![c].pc = "done",
                               ![c].ran = Append(@, Ran("init", call[c].dir, FALSE)),
                               ![c].result = PlanFailed(call[c].kind)]
  /\ UNCHANGED <<tmpDirs, planFiles, tfInstalled, auth, exec, deployVars>>

\* runTerraformPlan: terraform.plan({ out: "tfplan" }) and its return
TerraformPlan(c, ok) ==
  /\ call[c].pc = "plan"
  /\ IF ok
     THEN /\ planFiles' = planFiles \cup {call[c].dir}
          /\ IF call[c].kind = "apply"
             THEN call' = [call EXCEPT ![c].pc = "apply",
                                       ![c].ran = Append(@, Ran("plan", call[c].dir, TRUE))]
             ELSE call' = [call EXCEPT ![c].pc = "done",
                                       ![c].ran = Append(@, Ran("plan", call[c].dir, TRUE)),
                                       ![c].result = Result(TRUE,
                                          "Terraform plan completed successfully", FALSE, <<>>)]
     ELSE /\ call' = [call EXCEPT ![c].pc = "done",
                                  ![c].ran = Append(@, Ran("plan", call[c].dir, FALSE)),
                                  ![c].result = PlanFailed(call[c].kind)]
          /\ UNCHANGED planFiles
  /\ UNCHANGED <<tmpDirs, tfInstalled, auth, exec, deployVars>>

\* applyTerraformPlan: terraform.apply({ autoApprove: true })
TerraformApply(c, ok) ==
  /\ call[c].pc = "apply"
  /\ IF ok
     THEN call' = [call EXCEPT ![c].pc = "output",
                               ![c].ran = Append(@, Ran("apply", ApplyDir(c), TRUE))]
     ELSE call' = [call EXCEPT ![c].pc = "done",
                               ![c].ran = Append(@, Ran("apply", ApplyDir(c), FALSE)),
                               ![c].result = Result(FALSE, "Failed to apply Terraform plan",
                                                    FALSE, <<>>)]
  /\ UNCHANGED <<tmpDirs, planFiles, tfInstalled, auth, exec, deployVars>>

\* the result of applyTerraformPlan once terraform.output printed text
AfterOutput(text) ==
  LET parsed == ParseOutputs(OutputOrEmptyObject(text))
  IN IF parsed.ok
     THEN Result(TRUE, "Terraform apply completed successfully", TRUE, parsed.outputs)
     ELSE Result(TRUE, "Terraform apply completed successfully, but outputs could not be parsed",
                 FALSE, <<>>)

\* the result of applyTerraformPlan when terraform.output throws: the call is
\* outside the inner try, the catch around apply rethrows to the outer catch
AfterOutputThrows == Result(FALSE, "Failed to apply Terraform plan", FALSE, <<>>)

\* applyTerraformPlan: terraform.output({ json: true }) and the parse
TerraformOutput(c, ok, text) ==
  /\ call[c].pc = "output"
  /\ call' = [call EXCEPT ![c].pc = "done",
                          ![c].ran = Append(@, Ran("output", ApplyDir(c), ok)),
                          ![c].printed = IF ok THEN text ELSE NoText,
                          ![c].result = IF ok THEN AfterOutput(text) ELSE AfterOutputThrows]
  /\ UNCHANGED <<tmpDirs, planFiles, tfInstalled, auth, exec, deployVars>>

NextApply ==
  \/ \E c \in Calls, kind \in {"plan", "apply"}, stored \in StoredAnalyses :
       StartPlan(c, kind, stored)
  \/ \E c \in Calls, ok \in BOOLEAN : StageFiles(c, ok)
  \/ \E c \in Calls, ok \in BOOLEAN : TerraformInit(c, ok)
  \/ \E c \in Calls, ok \in BOOLEAN : TerraformPlan(c, ok)
  \/ \E c \in Calls, ok \in BOOLEAN : TerraformApply(c, ok)
  \/ \E c \in Calls, ok \in BOOLEAN, text \in OutputTexts : TerraformOutput(c, ok, text)

SpecApply == Init /\ [][NextApply]_vars


\* ------------------------------------------- azure.ts: authenticateWithAzure
EnvVars == {"AZURE_TENANT_ID", "AZURE_CLIENT_ID", "AZURE_CLIENT_SECRET",
            "AZURE_SUBSCRIPTION_ID"}

\* what an awaited SDK call does: it resolves, it rejects with an Error, or it
\* rejects with a value that has no properties (null, undefined)
Outcomes == {"ok", "error", "nullish"}

\* the lines authenticateWithAzure pushes before it reads process.env
AuthStartLogs == <<"Starting Azure authentication process...",
                   "Initializing Azure SDK authentication...">>

AuthFailure(a, line, message) ==
  [a EXCEPT !.pc = "done", !.settled = "resolved", !.logs = Append(@, line),
            !.success = FALSE, !.isLoggedIn = FALSE, !.message = message]

\* the outer catch: it reads error.message, which throws on a nullish error,
\* and the promise rejects
OuterCatch(a, thrown) ==
  IF thrown = "nullish"
  THEN [a EXCEPT !.pc = "done", !.settled = "rejected"]
  ELSE AuthFailure(a, "Azure SDK initialization error", "Azure authentication failed")

\* authenticateWithAzure whose catch of the token error rethrows it
TokenCatch_Rethrows(a, thrown) == OuterCatch(a, thrown)

\* catch (tokenError): it reads tokenError.message, which throws a TypeError
\* on a nullish error; the TypeError reaches the outer catch
TokenCatch(a, thrown) ==
  IF thrown = "nullish" THEN OuterCatch(a, "error")
  ELSE AuthFailure(a, "Authentication failed",
                   "Azure authentication failed: Invalid credentials")

\* catch (resourceError): a warning line; reading resourceError.message throws
\* a TypeError on a nullish error, which catch (tokenError) receives
ResourceCatch(a, thrown) ==
  IF thrown = "nullish" THEN TokenCatch(a, "error")
  ELSE [a EXCEPT !.pc = "done", !.settled = "resolved",
                 !.logs = Append(@, "Warning: Could not access Azure resources"),
                 !.success = TRUE, !.isLoggedIn = TRUE,
                 !.message = "Successfully authenticated with Azure"]

\* authenticateWithAzure up to `await credential.getToken(...)`; ctor is what
\* new DefaultAzureCredential() does
AuthenticateWithAzure(c, env, ctor) ==
  /\ auth[c].pc = "idle"
  /\ \A b \in Calls : b < c => auth[b].pc # "idle"
  /\ LET a == [auth[c] EXCEPT !.env = env, !.logs = AuthStartLogs]
     IN auth' = [auth EXCEPT ![c] =
          IF env # EnvVars
          THEN AuthFailure([a EXCEPT !.logs = Append(@, "Missing required Azure credentials.")],
                           "Please ensure the variables are provided.",
                           "Azure authentication failed: Missing required credentials")
          ELSE IF ctor # "ok" THEN OuterCatch(a, ctor)
          ELSE [a EXCEPT !.pc = "token",
                         !.logs = Append(@, "Checking Azure authentication")]]
  /\ UNCHANGED <<tmpDirs, planFiles, call, exec, tfInstalled, deployVars>>

\* getToken settles; on success the ResourceManagementClient is constructed
\* (client) and resources.list awaited
GetTokenSettles(c, token, client) ==
  /\ auth[c].pc = "token"
  /\ auth' = [auth EXCEPT ![c] =
       IF token # "ok" THEN TokenCatch(auth[c], token)
       ELSE LET a == [auth[c] EXCEPT !.logs = @ \o <<"Successfully authenticated with Azure SDK",
                                                      "Using subscription">>]
            IN IF client # "ok" THEN TokenCatch(a, client)
               ELSE [a EXCEPT !.pc = "list"]]
  /\ UNCHANGED <<tmpDirs, planFiles, call, exec, tfInstalled, deployVars>>

\* resources.list settles
ListSettles(c, list) ==
  /\ auth[c].pc = "list"
  /\ auth' = [auth EXCEPT ![c] =
       IF list # "ok" THEN ResourceCatch(auth[c], list)
       ELSE [auth[c] EXCEPT !.pc = "done", !.settled = "resolved",
                            !.logs = Append(@, "Successfully accessed Azure resources"),
                            !.success = TRUE, !.isLoggedIn = TRUE,
                            !.message = "Successfully authenticated with Azure"]]
  /\ UNCHANGED <<tmpDirs, planFiles, call, exec, tfInstalled, deployVars>>

NextAuth ==
  \/ \E c \in Calls, env \in SUBSET EnvVars, ctor \in {"ok", "error"} :
       AuthenticateWithAzure(c, env, ctor)
  \/ \E c \in Calls, token \in Outcomes, client \in {"ok", "error"} :
       GetTokenSettles(c, token, client)
  \/ \E c \in Calls, list \in Outcomes : ListSettles(c, list)

SpecAuth == Init /\ [][NextAuth]_vars


\* --------------------------------------- azure-deploy.ts: executeCommand
MaxChunks == 2      \* 'data' events of one process

\* the Buffers a 'data' event can carry: "hi" and "lo" are the two bytes of one
\* two-byte character, which the process may write in one piece or in two
Buffers == {<<"a">>, <<"hi", "lo">>, <<"hi">>, <<"lo">>}
Streams == {"stdout", "stderr"}

\* the exit codes 'close' can report; SignalCode stands for null (killed)
SignalCode == 2
ExitCodes == {0, 1, SignalCode}

\* Buffer.toString(): utf8 decoding of one chunk; a byte that forms no
\* complete character becomes U+FFFD
RECURSIVE BufferToString(_)
BufferToString(buffer) ==
  IF buffer = <<>> THEN <<>>
  ELSE IF Len(buffer) >= 2 /\ buffer[1] = "hi" /\ buffer[2] = "lo"
       THEN <<"e-acute">> \o BufferToString(Tail(Tail(buffer)))
  ELSE IF Head(buffer) = "a" THEN <<"a">> \o BufferToString(Tail(buffer))
  ELSE <<"U+FFFD">> \o BufferToString(Tail(buffer))

\* executeCommand whose stderr has no 'data' handler
OnData_StdoutOnly(e, stream, buffer) ==
  IF stream = "stderr" THEN [e EXCEPT !.arrived = Append(@, <<stream, buffer>>)]
  ELSE [e EXCEPT !.arrived = Append(@, <<stream, buffer>>),
                 !.output = @ \o BufferToString(buffer),
                 !.calls = IF HasCallback(e.cmd) THEN Append(@, BufferToString(buffer)) ELSE @]

\* the 'data' handlers of stdout and stderr
OnData(e, stream, buffer) ==
  [e EXCEPT !.arrived = Append(@, <<stream, buffer>>),
            !.output = @ \o BufferToString(buffer),
            !.calls = IF HasCallback(e.cmd) THEN Append(@, BufferToString(buffer)) ELSE @]

\* new Promise: spawn(command, args, { cwd }), for a deploymentId that is not
\* registered
ExecuteCommand(p) ==
  /\ exec.pc = "idle"
  /\ exec' = [exec EXCEPT !.pc = "pending", !.cmd = p]
  /\ UNCHANGED <<tmpDirs, planFiles, call, auth, tfInstalled, deployVars>>

ExecData(stream, buffer) ==
  /\ exec.pc = "pending"
  /\ Installed(exec.cmd)
  /\ Len(exec.arrived) < MaxChunks
  /\ exec' = OnData(exec, stream, buffer)
  /\ activeDeployments' =
       IF HasCallback(exec.cmd)
       THEN AddDeploymentUpdate(activeDeployments, NoId, CallbackStatus(exec.cmd),
                                CallbackMessage(exec.cmd), Details(BufferToString(buffer)), now)
       ELSE activeDeployments
  /\ UNCHANGED <<now, azInstalled, tfInstalled, loggedIn, fsDirs, pc, jobId, jobAnalysis,
                 jobDir, out, err, lateClose, emitted, tmpDirs, planFiles, call, auth>>

\* 'close' with `code`; a promise that is settled stays as it is
ExecClose(code) ==
  /\ exec.pc # "idle"
  /\ ~exec.closed
  /\ Installed(exec.cmd) \/ (exec.errored /\ code # 0)
  /\ exec' = [exec EXCEPT !.closed = TRUE, !.code = code,
                          !.pc = IF exec.pc # "pending" THEN @
                                 ELSE IF code = 0 THEN "resolved" ELSE "rejected",
                          !.resolved = IF exec.pc = "pending" /\ code = 0
                                       THEN exec.output ELSE @]
  /\ activeDeployments' =
       IF code = 0 THEN activeDeployments
       ELSE ExecuteCommandCloseFailed(activeDeployments, NoId, exec.cmd, exec.output, now)
  /\ UNCHANGED <<now, azInstalled, tfInstalled, loggedIn, fsDirs, pc, jobId, jobAnalysis,
                 jobDir, out, err, lateClose, emitted, tmpDirs, planFiles, call, auth>>

\* 'error': the binary could not be spawned
ExecError ==
  /\ exec.pc = "pending"
  /\ ~Installed(exec.cmd)
  /\ ~exec.errored
  /\ exec' = [exec EXCEPT !.errored = TRUE, !.pc = "rejected"]
  /\ activeDeployments' =
       ExecuteCommandError(activeDeployments, NoId, exec.cmd, exec.output, now)
  /\ UNCHANGED <<now, azInstalled, tfInstalled, loggedIn, fsDirs, pc, jobId, jobAnalysis,
                 jobDir, out, err, lateClose, emitted, tmpDirs, planFiles, call, auth>>

NextExec ==
  \/ \E p \in {"tfVersion", "plan"} : ExecuteCommand(p)
  \/ \E stream \in Streams, buffer \in Buffers : ExecData(stream, buffer)
  \/ \E code \in ExitCodes : ExecClose(code)
  \/ ExecError

SpecExec == Init /\ [][NextExec]_vars

\* time passes between two turns of the event loop
Tick ==
  /\ now < MaxClock
  /\ now' = now + 1
  /\ UNCHANGED <<activeDeployments, azInstalled, tfInstalled, loggedIn, fsDirs, pc, jobId,
                 jobAnalysis, jobDir, out, err, lateClose, emitted, applyVars>>

Next ==
  \/ Tick
  \/ \E j \in Jobs, a \in Analyses : DeployToAzure(j, a)
  \/ \E j \in Jobs, i \in 1..Len(Chunks) : Data(j, Chunks[i])
  \/ \E j \in Jobs, s \in StagingOutcomes : \E output \in OutputAtCloseZero(j) :
       CloseZero(j, s, output)
  \/ \E j \in Jobs : \E output \in OutputAtCloseNonZero(j) : CloseNonZero(j, output)
  \/ \E j \in Jobs : SpawnError(j)
  \/ \E j \in Jobs : CloseAfterError(j)

Spec == Init /\ [][Next]_vars

\* the process job j awaits emits 'close' or 'error'
ProcessEnds(j) ==
  \/ \E s \in StagingOutcomes : \E output \in OutputAtCloseZero(j) : CloseZero(j, s, output)
  \/ \E output \in OutputAtCloseNonZero(j) : CloseNonZero(j, output)
  \/ SpawnError(j)

\* every spawned process eventually emits 'close' or 'error'
SpecLive == Init /\ [][Next]_vars /\ \A j \in Jobs : WF_vars(ProcessEnds(j))
\* ================================================================ claims
Registered == DOMAIN activeDeployments
Updates(d) == activeDeployments[d].updates
Started(j) == jobId[j] # NoId

\* the first 'failed' update of a history (0 when there is none) and the
\* status of the update before it: the stage the deployment failed at
FirstFailed(u) ==
  IF \E i \in 1..Len(u) : u[i].status = "failed"
  THEN CHOOSE i \in 1..Len(u) :
         u[i].status = "failed" /\ \A k \in 1..(i - 1) : u[k].status # "failed"
  ELSE 0
FailedAtStage(u, stage) == FirstFailed(u) > 1 /\ u[FirstFailed(u) - 1].status = stage

\* C1: once a deployment's status is 'completed' or 'failed' no later update
\* changes it: in its update history no 'failed' entry is followed by an entry
\* that is not 'failed', and no 'completed' entry by any other status.
C1_TerminalNeverReverts ==
  \A d \in Registered :
    \A i, k \in 1..Len(Updates(d)) :
      (i < k /\ Terminal(Updates(d)[i].status))
        => Updates(d)[k].status = Updates(d)[i].status

\* C2: in every state a poller can observe, the status of a deployment is the
\* status of the last element of its updates.
C2_StatusIsLastUpdate ==
  \A d \in Registered :
    /\ Len(Updates(d)) > 0
    /\ activeDeployments[d].status = Updates(d)[Len(Updates(d))].status
C2_Witness ==
  \E d \in Registered : Len(Updates(d)) >= 3 /\ activeDeployments[d].status = "planning"

\* C3: once deployToAzure has returned an id, the updates of that deployment
\* are non-empty and their first element has status 'initializing'.
C3_FirstUpdateInitializing ==
  \A j \in Jobs :
    Started(j) =>
      /\ jobId[j] \in Registered
      /\ Updates(jobId[j]) # <<>>
      /\ Updates(jobId[j])[1].status = "initializing"
C3_Witness ==
  \E j \in Jobs : pc[j] = "init" /\ Len(Updates(jobId[j])) > 1

\* C4: endTime is written once: an addDeploymentUpdate that extends the
\* updates of a deployment whose endTime is set leaves endTime as it is.
C4_EndTimeWrittenOnce ==
  [][\A d \in Registered :
       ( /\ d \in DOMAIN activeDeployments'
         /\ activeDeployments[d].endTime # NoTime
         /\ Len(activeDeployments'[d].updates) > Len(Updates(d))
         /\ SubSeq(activeDeployments'[d].updates, 1, Len(Updates(d))) = Updates(d) )
       => activeDeployments'[d].endTime = activeDeployments[d].endTime]_vars

\* C5: any two calls of deployToAzure return distinct deployment ids.
C5_DistinctIds ==
  \A i, j \in Jobs : (i # j /\ Started(i) /\ Started(j)) => jobId[i] # jobId[j]

\* C6: no working directory is used by more than one job.
C6_DistinctDirs ==
  \A i, j \in Jobs : (i # j /\ jobDir[i] # NoDir /\ jobDir[j] # NoDir) => jobDir[i] # jobDir[j]

\* C7: a turn of one job's task, a failing one included, changes no record but
\* the one of its own deployment id: every other record keeps its updates,
\* status, logs and endTime.
Acted(j) == pc'[j] # pc[j] \/ out'[j] # out[j] \/ lateClose'[j] # lateClose[j]
C7_OtherRecordsUnchanged ==
  [][\A j \in Jobs :
       Acted(j) =>
         \A d \in Registered :
           d # jobId'[j] => (d \in DOMAIN activeDeployments'
                             /\ activeDeployments'[d] = activeDeployments[d])]_vars
C7_Witness ==
  /\ Started(1) /\ Started(2) /\ jobId[1] # jobId[2]
  /\ pc[1] = "rejected" /\ activeDeployments[jobId[1]].status = "failed"
  /\ pc[2] \in Running /\ activeDeployments[jobId[2]].status = "preparing"

\* C8: applyTerraformPlan runs terraform init and terraform plan itself; when
\* both succeed it runs terraform apply in that same directory, where the plan
\* artifact then exists, and it ends with a result; apply is started by no
\* other path.
C8_ApplyReplans ==
  \A c \in Calls :
    call[c].kind = "apply" =>
      LET r == call[c].ran
      IN /\ \A i \in 1..Len(r) :
              r[i].cmd = "apply" =>
                /\ i = 3
                /\ r[1] = Ran("init", call[c].dir, TRUE)
                /\ r[2] = Ran("plan", call[c].dir, TRUE)
                /\ r[3].dir = call[c].dir
                /\ r[3].dir \in planFiles
         /\ (call[c].pc = "done" /\ Len(r) >= 2 /\ r[1].ok /\ r[2].ok)
              => (Len(r) >= 3 /\ r[3].cmd = "apply" /\ call[c].result.message # "none")
C8_Witness ==
  \E c \in Calls :
    /\ call[c].kind = "apply" /\ call[c].pc = "done"
    /\ Len(call[c].ran) >= 3 /\ call[c].ran[3] = Ran("apply", call[c].dir, TRUE)
    /\ call[c].result.success

\* C9: a job whose staging failed ends 'failed', and its updates hold no
\* 'planning' or 'applying' entry.
StagingErrors == {<<"EACCES: mkdir">>, <<"ENOSPC: write">>}
C9_StagingAtomic ==
  \A j \in Jobs :
    (pc[j] = "rejected" /\ err[j] \in StagingErrors) =>
      /\ activeDeployments[jobId[j]].status = "failed"
      /\ \A i \in 1..Len(Updates(jobId[j])) :
           Updates(jobId[j])[i].status \notin {"planning", "applying"}

\* a message that names a tool
NamesTool(message, tool) ==
  \E i \in 1..Len(message) :
    <<message[i], tool>> \in {<<"az", "az">>, <<"Azure CLI is not installed", "az">>,
                              <<"terraform", "terraform">>,
                              <<"Terraform is not installed", "terraform">>}
\* job j's task has failed on the probe of a binary that is absent
HitMissingTool(p, e, tool) ==
  /\ p = "rejected"
  /\ \/ tool = "az" /\ ~azInstalled /\ e = <<"Azure CLI is not installed">>
     \/ tool = "terraform" /\ ~tfInstalled /\ e = <<"Terraform is not installed">>
Tools == {"az", "terraform"}

LoginFailed(j) == pc[j] = "login" /\ pc'[j] = "rejected" /\ err'[j] \notin StagingErrors
C11_FailsAtAuthenticating ==
  [][\A j \in Jobs :
       LoginFailed(j) =>
         LET d == activeDeployments'[jobId[j]]
         IN /\ d.status = "failed"
            /\ \E i \in 1..Len(d.updates) : d.updates[i].status = "authenticating"
            /\ \A i \in 1..Len(d.updates) :
                 d.updates[i].status \notin {"preparing", "planning", "applying",
                                             "completed"}]_vars

\* the request c has run terraform apply with success / has then read the
\* text terraform output printed
ApplySucceeded(c) ==
  /\ call[c].kind = "apply" /\ call[c].pc = "done"
  /\ Len(call[c].ran) >= 3 /\ call[c].ran[3] = Ran("apply", call[c].dir, TRUE)
OutputPrinted(c) ==
  /\ ApplySucceeded(c)
  /\ Len(call[c].ran) = 4 /\ call[c].ran[4] = Ran("output", call[c].dir, TRUE)

\* C12: when terraform apply succeeded and the text of the output query cannot
\* be parsed into key -> {value} pairs, the result of applyTerraformPlan has
\* success = true and carries an outputs map that is present and empty.
C12_ParseFailureEmptyOutputs ==
  \A c \in Calls :
    (OutputPrinted(c) /\ ~ParseOutputs(OutputOrEmptyObject(call[c].printed)).ok) =>
      /\ call[c].result.success
      /\ call[c].result.hasOutputs
      /\ call[c].result.outputs = <<>>

\* C13: whenever terraform apply succeeded, the result of applyTerraformPlan
\* has success = true, whatever the output query did afterwards.
C13_SuccessDespiteOutput ==
  \A c \in Calls : ApplySucceeded(c) => call[c].result.success

\* getDeploymentStatus on the registry ad
Undefined == [status |-> "undefined", updates |-> <<>>]
GetDeploymentStatus(ad, deploymentId) ==
  IF deploymentId \in DOMAIN ad THEN ad[deploymentId] ELSE Undefined

\* C14: deployToAzure returns without waiting for an external process of the
\* job: in the state it returns in, the record of the id it returns is
\* retrievable through getDeploymentStatus, its status is 'initializing', no
\* update of a later stage has been made, and the job's first external process
\* (az --version) is still running.
Returned(j) == pc[j] = "idle" /\ pc'[j] # "idle" /\ pc'[j] # "threw"
C14_ReturnsAtInitializing ==
  [][\A j \in Jobs :
       Returned(j) =>
         LET d == GetDeploymentStatus(activeDeployments', jobId'[j])
         IN /\ d # Undefined
            /\ d.status = "initializing"
            /\ \A i \in 1..Len(d.updates) : d.updates[i].status = "initializing"
            /\ pc'[j] = "azVersion"]_vars
C14_Witness ==
  /\ pc[2] = "azVersion" /\ pc[1] = "plan"
  /\ GetDeploymentStatus(activeDeployments, jobId[2]).status = "initializing"
  /\ jobId[1] # jobId[2]

\* the place of each position in the order deployTerraform awaits its commands
Rank(p) ==
  CASE p = "idle" -> 0
    [] p = "azVersion" -> 1
    [] p = "tfVersion" -> 2
    [] p = "accountShow" -> 3
    [] p = "login" -> 4
    [] p = "init" -> 5
    [] p = "plan" -> 6
    [] p = "apply" -> 7
    [] OTHER -> 8

\* C15: within one job each external command is started at most once (a
\* command started by a turn comes later in the order than every command
\* started before), and a turn in which terraform init, plan or apply fails
\* starts no further process for the job.
C15_NoRetry ==
  [][\A j \in Jobs :
       pc'[j] # pc[j] =>
         /\ Rank(pc'[j]) > Rank(pc[j])
         /\ (pc[j] \in {"init", "plan", "apply"} /\ err'[j] # NoError)
              => pc'[j] \notin Running]_vars
C15_Witness ==
  \E j \in Jobs :
    /\ pc[j] = "rejected" /\ err[j] = CloseErrorMessage(<<>>)
    /\ jobDir[j] # NoDir
    /\ \E i \in 1..Len(Updates(jobId[j])) : Updates(jobId[j])[i].status = "planning"

\* the update the catch of deployTerraform and the .catch of deployToAzure make
CaughtUpdate(errorMessage) ==
  DeploymentUpdate("failed", <<"Deployment failed: ">> \o errorMessage, NoDetails)
\* the turn in which job j's background task settles with a failure
SettledFailed(j) == pc[j] \in Running /\ pc'[j] = "rejected"

\* C16: every failure inside deployTerraform is caught. In the turn in which
\* the task settles after a failure, the catch of deployTerraform and then the
\* .catch of deployToAzure have run (each made its 'failed' update, the last
\* two of the record) and the status of the job is 'failed'.
C16_FailureCaught ==
  [][\A j \in Jobs :
       SettledFailed(j) =>
         LET d == GetDeploymentStatus(activeDeployments', jobId[j])
             n == Len(d.updates)
         IN /\ d.status = "failed"
            /\ n >= 3
            /\ d.updates[n] = CaughtUpdate(err'[j])
            /\ d.updates[n - 1] = CaughtUpdate(err'[j])]_vars
C16_Witness ==
  /\ pc[1] = "rejected" /\ err[1] \in StagingErrors
  /\ pc[2] = "rejected" /\ err[2] = CloseErrorMessage(<<"chunk 1">>)
  /\ activeDeployments[jobId[1]].status = "failed"
  /\ activeDeployments[jobId[2]].status = "failed"

\* job j's background task has settled
Settled(j) == pc[j] \in {"fulfilled", "rejected"}

\* C17: when every spawned process eventually emits close or error, the task
\* of every job deployToAzure created eventually settles with the status of the
\* job 'completed' or 'failed', and in the turn in which a task settles the
\* status of its job is one of those two.
C17_ReachesTerminal ==
  /\ \A j \in Jobs :
       Started(j) ~> (Settled(j) /\ Terminal(activeDeployments[jobId[j]].status))
  /\ [][\A j \in Jobs :
          (~Settled(j) /\ Settled(j)')
            => Terminal(GetDeploymentStatus(activeDeployments', jobId[j]).status)]_vars
C17_Witness ==
  /\ pc[1] = "fulfilled" /\ activeDeployments[jobId[1]].status = "completed"
  /\ pc[2] = "rejected" /\ activeDeployments[jobId[2]].status = "failed"

\* C18: authenticateWithAzure never rejects: for every environment and every
\* outcome of token acquisition and resource listing it resolves to a result;
\* a result with success = false has isLoggedIn = false and at least one line
\* in logs, and a result with success = true has isLoggedIn = true.
C18_AuthNeverRejects ==
  \A c \in Calls :
    /\ auth[c].settled # "rejected"
    /\ auth[c].pc = "done" => auth[c].settled = "resolved"
    /\ auth[c].settled = "resolved" =>
         /\ ~auth[c].success => (~auth[c].isLoggedIn /\ Len(auth[c].logs) >= 1)
         /\ auth[c].success => auth[c].isLoggedIn
C18_Witness ==
  /\ auth[1].settled = "resolved" /\ auth[1].success
  /\ auth[2].settled = "resolved" /\ ~auth[2].success /\ auth[2].env = EnvVars
  /\ auth[2].message = "Azure authentication failed"

\* the updates a turn appended to the record of job j
Appended(j) ==
  LET before == GetDeploymentStatus(activeDeployments, jobId[j]).updates
      after == GetDeploymentStatus(activeDeployments', jobId[j]).updates
  IN SubSeq(after, Len(before) + 1, Len(after))
\* the turn in which the probe job j awaits (az --version, terraform --version)
\* settles and checkAzCliInstalled / checkTerraformInstalled returns
ProbeReturns(j) == pc[j] \in {"azVersion", "tfVersion"} /\ pc'[j] # pc[j]

\* C19: checkAzCliInstalled and checkTerraformInstalled leave the record of the
\* job as it was: in the turn in which a probe returns, true or false, the
\* record gets no update but the ones deployTerraform and deployToAzure make
\* for the failure that follows a false, and a late close of the probe's
\* process adds none either.
C19_ProbesLeaveRecord ==
  [][\A j \in Jobs :
       /\ ProbeReturns(j) =>
            \A i \in 1..Len(Appended(j)) : Appended(j)[i] = CaughtUpdate(err'[j])
       /\ (lateClose[j] # <<>> /\ lateClose'[j] = Tail(lateClose[j])
           /\ Head(lateClose[j]) \in {"azVersion", "tfVersion"})
            => Appended(j) = <<>>]_vars

\* the strings of the Buffers in `arrived`, one after the other
RECURSIVE Decoded(_)
Decoded(arrived) ==
  IF arrived = <<>> THEN <<>> ELSE <<BufferToString(Head(arrived)[2])>> \o Decoded(Tail(arrived))
RECURSIVE Concat(_)
Concat(strings) ==
  IF strings = <<>> THEN <<>> ELSE Head(strings) \o Concat(Tail(strings))

\* C20: executeCommand resolves if and only if its process closes with exit
\* code 0, and rejects when it closes with another code or emits 'error'; the
\* output of a resolved result is the concatenation, in their order of
\* arrival, of every stdout and stderr chunk; each chunk is handed to
\* onOutput exactly once, in that order, and none after the promise settled.
C20_ExecuteCommand ==
  /\ exec.pc = "resolved" <=> (exec.closed /\ exec.code = 0 /\ ~exec.errored)
  /\ (exec.errored \/ (exec.closed /\ exec.code # 0)) => exec.pc = "rejected"
  /\ exec.pc = "resolved" => exec.resolved = Concat(Decoded(exec.arrived))
  /\ HasCallback(exec.cmd) => exec.calls = Decoded(exec.arrived)
  /\ ~HasCallback(exec.cmd) => exec.calls = <<>>
C20_Witness ==
  /\ exec.pc = "resolved" /\ HasCallback(exec.cmd)
  /\ Len(exec.arrived) = 2
  /\ exec.arrived[1][1] = "stderr" /\ exec.arrived[2][1] = "stdout"
  /\ exec.arrived[1][2] # exec.arrived[2][2]

\* the turn in which job j's terraform init, plan or apply closes with a
\* non-zero code
TerraformFailed(j) ==
  /\ pc[j] \in {"init", "plan", "apply"} /\ pc'[j] = "rejected"
  /\ err'[j] = CloseErrorMessage(out[j])

\* C21: when terraform init, plan or apply exits non-zero, the turn appends to
\* the updates of the job a 'failed' entry whose details are the complete
\* output captured from that process.
C21_FailedDetailsAreOutput ==
  [][\A j \in Jobs :
       TerraformFailed(j) =>
         \E i \in 1..Len(Appended(j)) :
           Appended(j)[i] = DeploymentUpdate("failed",
                                             <<"Command failed: ">> \o Command(pc[j]),
                                             Details(out[j]))]_vars
C21_Witness ==
  \E j \in Jobs :
    /\ pc[j] = "rejected" /\ err[j] = CloseErrorMessage(<<"chunk 1">>)
    /\ \E i \in 1..Len(Updates(jobId[j])) :
         Updates(jobId[j])[i] = DeploymentUpdate("failed",
                                                 <<"Command failed: ">> \o Command("plan"),
                                                 Details(<<"chunk 1">>))

\* getAllDeployments on the registry ad
GetAllDeployments(ad) == {ad[x] : x \in DOMAIN ad}

\* C22: once deployToAzure has returned an id, getDeploymentStatus(id) returns
\* a record and getAllDeployments includes it, whether the job is running,
\* completed or failed; no turn removes an id from the registry, and the
\* number of entries never decreases.
C22_RegistryNeverShrinks ==
  /\ [](\A j \in Jobs :
          Started(j) =>
            /\ GetDeploymentStatus(activeDeployments, jobId[j]) # Undefined
            /\ GetDeploymentStatus(activeDeployments, jobId[j])
                 \in GetAllDeployments(activeDeployments))
  /\ [][/\ DOMAIN activeDeployments \subseteq DOMAIN activeDeployments'
        /\ Cardinality(DOMAIN activeDeployments') >= Cardinality(DOMAIN activeDeployments)]_vars
C22_Witness ==
  /\ Cardinality(Registered) = 2
  /\ \E d \in Registered : activeDeployments[d].status = "completed"
  /\ \E d \in Registered : activeDeployments[d].status = "failed"

\* the order of the stages
StageRank(status) ==
  CASE status = "initializing" -> 1
    [] status = "authenticating" -> 2
    [] status = "preparing" -> 3
    [] status = "planning" -> 4
    [] status = "applying" -> 5
    [] status = "completed" -> 6
    [] OTHER -> 0
InStageOrder(u) ==
  \A i, k \in 1..Len(u) :
    (i < k /\ u[i].status # "failed" /\ u[k].status # "failed")
      => StageRank(u[i].status) <= StageRank(u[k].status)

\* C23: in the updates of every job the statuses other than 'failed' appear
\* in the order initializing, authenticating, preparing, planning, applying,
\* completed, and a 'completed' entry is appended only by the turn in which
\* the job's terraform apply, started after its init and plan exited with
\* code 0, exits with code 0.
C23_StatusOrder ==
  /\ [](\A j \in Jobs : Started(j) => InStageOrder(Updates(jobId[j])))
  /\ [][\A j \in Jobs :
          (Acted(j) /\ \E i \in 1..Len(Appended(j)) : Appended(j)[i].status = "completed")
            => (pc[j] = "apply" /\ pc'[j] = "fulfilled" /\ err'[j] = NoError)]_vars

\* the updates deployTerraform makes when the credential check or the login
\* of the job has succeeded
AuthSucceededMessages == {<<"Already authenticated with Azure">>,
                          <<"Successfully authenticated with Azure">>}
AuthSucceededIn(u) ==
  \E k \in 1..Len(u) : u[k].status = "authenticating" /\ u[k].message \in AuthSucceededMessages

\* C24: the updates of a job hold a 'preparing' or later-stage entry only
\* after an entry that reports the success of its credential check or login,
\* and a job stages files and starts terraform init only in the turn in which
\* its credential check or login succeeds.
C24_PreparingAfterAuth ==
  /\ [](\A j \in Jobs :
          Started(j) =>
            \A i \in 1..Len(Updates(jobId[j])) :
              StageRank(Updates(jobId[j])[i].status) >= 3
                => AuthSucceededIn(SubSeq(Updates(jobId[j]), 1, i - 1)))
  /\ [][\A j \in Jobs :
          (jobDir'[j] # jobDir[j] \/ (pc'[j] = "init" /\ pc[j] # "init"))
            => (pc[j] \in {"accountShow", "login"} /\ AuthSucceededIn(Appended(j)))]_vars

\* what deployTerraform throws when a probe returned false
NotInstalledErrors == {<<"Azure CLI is not installed">>, <<"Terraform is not installed">>}

\* C25: when checkAzCliInstalled or checkTerraformInstalled returns false the
\* job fails before any state-mutating action: the turn in which the probe
\* returns settles the task without starting az login or terraform init, plan
\* or apply and without creating or writing the deployment directory, and the
\* job starts nothing afterwards.
C25_ProbeFalseFailsFast ==
  /\ [][\A j \in Jobs :
          (ProbeReturns(j) /\ err'[j] \in NotInstalledErrors) =>
            /\ pc'[j] = "rejected"
            /\ fsDirs' = fsDirs
            /\ jobDir'[j] = NoDir]_vars
  /\ [][\A j \in Jobs :
          (pc[j] = "rejected" /\ err[j] \in NotInstalledErrors)
            => (pc'[j] = "rejected" /\ jobDir'[j] = NoDir)]_vars
C25_Witness ==
  \E j \in Jobs :
    /\ pc[j] = "rejected" /\ err[j] = <<"Azure CLI is not installed">>
    /\ jobDir[j] = NoDir /\ fsDirs = {}
    /\ tfInstalled

IsPrefix(s, u) == Len(s) <= Len(u) /\ SubSeq(u, 1, Len(s)) = s
\* the jobs whose background task writes to the record of id d
Writers(d) == {j \in Jobs : jobId[j] = d}

\* C26: for every deployment id the updates observed at any time are a prefix
\* of the updates observed later, and the record has a single writer: the one
\* background task of the deployToAzure call that returned the id.
C26_AppendOnlySingleWriter ==
  /\ [][\A d \in Registered :
          /\ d \in DOMAIN activeDeployments'
          /\ IsPrefix(Updates(d), activeDeployments'[d].updates)]_vars
  /\ [](\A d \in Registered : Cardinality(Writers(d)) <= 1)

\* the segments addDeploymentUpdate has appended to logs for the updates u
RECURSIVE LogsOf(_)
LogsOf(u) ==
  IF u = <<>> THEN <<>>
  ELSE LET last == u[Len(u)]
           rest == LogsOf(SubSeq(u, 1, Len(u) - 1))
       IN IF Truthy(last.details)
          THEN rest \o <<LogLine(last), LogDetails(last)>>
          ELSE rest \o <<LogLine(last)>>

\* C27: the logs of a job only grow (their value at any time is a prefix of
\* their value later) and they consist of one segment per element of updates,
\* in the same order: the status and message of the update, followed by its
\* details when they are non-empty.
C27_LogsMirrorUpdates ==
  /\ [][\A d \in Registered :
          /\ d \in DOMAIN activeDeployments'
          /\ IsPrefix(activeDeployments[d].logs, activeDeployments'[d].logs)]_vars
  /\ [](\A d \in Registered : activeDeployments[d].logs = LogsOf(Updates(d)))

\* C28: in every observable state of a job, endTime is set if and only if the
\* status of the job is 'completed' or 'failed'.
C28_EndTimeIffTerminal ==
  \A d \in Registered :
    (activeDeployments[d].endTime # NoTime) <=> Terminal(activeDeployments[d].status)

\* C29: every call of applyTerraformPlan creates a temporary directory of its
\* own (no other call, earlier or later, works in it) and runs init and plan in
\* it before apply: apply is started only as the third command of the call,
\* after the init and the plan of this call succeeded in this directory, and
\* never when one of them failed.
C29_FreshPlanPerApply ==
  \A c \in Calls :
    (call[c].kind = "apply" /\ call[c].dir # 0) =>
      /\ \A b \in Calls \ {c} : call[b].dir # call[c].dir
      /\ \A i \in 1..Len(call[c].ran) :
           /\ call[c].ran[i].dir = call[c].dir
           /\ call[c].ran[i].cmd = "apply" =>
                /\ i = 3
                /\ call[c].ran[1].cmd = "init" /\ call[c].ran[1].ok
                /\ call[c].ran[2].cmd = "plan" /\ call[c].ran[2].ok
      /\ (\E i \in 1..Len(call[c].ran) :
            call[c].ran[i].cmd \in {"init", "plan"} /\ ~call[c].ran[i].ok)
           => \A i \in 1..Len(call[c].ran) : call[c].ran[i].cmd # "apply"
C29_Witness ==
  /\ call[1].kind = "plan" /\ call[1].pc = "done" /\ call[1].result.success
  /\ call[2].kind = "apply" /\ call[2].pc = "done" /\ call[2].result.success
  /\ call[1].dir \in planFiles /\ call[2].dir \in planFiles
  /\ call[1].dir # call[2].dir

\* C30: deployToAzure called with an analysis that has no terraformCode or an
\* empty files list rejects, adds no record to the registry and starts no
\* background task or external process: a call that has gone past its guard
\* (it has an id, a record or a running process) was made with terraformCode
\* and files, the record of every id belongs to such an analysis, and a call
\* that rejected stays without id, directory, output and process.
Threw(j) == pc[j] = "threw"
NoCodeOrNoFiles(a) == ~a.code \/ a.files = 0
C30_NoFilesRejects ==
  /\ [](\A j \in Jobs :
          /\ (Started(j) \/ pc[j] \notin {"idle", "threw"}) => ~NoCodeOrNoFiles(jobAnalysis[j])
          /\ Threw(j) => (~Started(j) /\ jobAnalysis[j] = NoAnalysis /\ jobDir[j] = NoDir
                          /\ out[j] = <<>> /\ lateClose[j] = <<>>))
  /\ [](\A d \in Registered :
          \E a \in Analyses : a.id = activeDeployments[d].analysisId /\ ~NoCodeOrNoFiles(a))
  /\ [][\A j \in Jobs :
          /\ (~Threw(j) /\ Threw(j)') => activeDeployments' = activeDeployments
          /\ Threw(j) => Threw(j)']_vars
C30_Witness ==
  /\ pc[1] = "threw" /\ pc[2] \in Running
  /\ Cardinality(Registered) = 1
====
